---- MODULE Spec2Model ----
(***************************************************************************)
(* A model of jaraco.apt: the parser that finds the newly installed        *)
(* packages in aptitude's output (parse_new_packages) and the context      *)
(* manager that installs packages under a file lock, yields to a block     *)
(* and removes them afterwards (dependency_context).                       *)
(*                                                                         *)
(* Text is a sequence of one-character strings.  A package name is such a  *)
(* sequence too, as in the code, where PackageName is a str.               *)
(***************************************************************************)
EXTENDS Integers, Sequences, FiniteSets, TLC

\* ------------------------------------------------------------------------
\* Bounds of the model.

\* The longest apt output the parser is tried on, in chunks (see Chunks).
MaxChunks == 5

\* The most package tokens in the block of a generated apt output (see
\* BlockTexts).
MaxTokens == 3

\* The number of concurrent invocations of dependency_context.
NumProcs == 2

\* ------------------------------------------------------------------------
\* Characters.

\* \w of the re module (no re.UNICODE, no re.LOCALE): [a-zA-Z0-9_].
WordChars ==
  {"a","b","c","d","e","f","g","h","i","j","k","l","m",
   "n","o","p","q","r","s","t","u","v","w","x","y","z",
   "A","B","C","D","E","F","G","H","I","J","K","L","M",
   "N","O","P","Q","R","S","T","U","V","W","X","Y","Z",
   "0","1","2","3","4","5","6","7","8","9","_"}

\* The class [\r\n] of the pattern of parse_new_packages.
LineBreaks == {"\r", "\n"}

\* The class [\w{}\.+-] of the tokenizer of parse_new_packages.
NameChars == WordChars \cup {"{", "}", ".", "+", "-"}

\* The literal the pattern of parse_new_packages starts with:
\* 'The following NEW packages will be installed:'.
Header ==
  <<"T","h","e"," ","f","o","l","l","o","w","i","n","g"," ","N","E","W"," ",
    "p","a","c","k","a","g","e","s"," ","w","i","l","l"," ","b","e"," ",
    "i","n","s","t","a","l","l","e","d",":">>

\* ------------------------------------------------------------------------
\* Helpers on finite sets of integers.

Min(S) == CHOOSE x \in S : \A y \in S : x <= y

Max(S) == CHOOSE x \in S : \A y \in S : x >= y

\* ------------------------------------------------------------------------
\* PackageName.from_apt

\* name.endswith('{a}')
EndsWithMarker(name) ==
  /\ Len(name) >= 3
  /\ name[Len(name) - 2] = "{"
  /\ name[Len(name) - 1] = "a"
  /\ name[Len(name)] = "}"

\* A faulty variant of from_apt: the marker is noted but left on the name.
FromAptKeepsMarker(name) ==
  [name |-> name, automatic |-> EndsWithMarker(name)]

\* A PackageName: the str value and its attribute `automatic`.
from_apt(name) ==
  LET automatic == EndsWithMarker(name)
  IN  [name |-> IF automatic THEN SubSeq(name, 1, Len(name) - 3) ELSE name,
       automatic |-> automatic]

\* ------------------------------------------------------------------------
\* parse_new_packages

\* A faulty variant of AtLineStart: the pattern without its '^', which
\* matches the header anywhere in a line.
AtAnyPosition(s, i) == i >= 1

\* '^' under re.MULTILINE: the start of the text or right after a '\n'.
AtLineStart(s, i) == i = 1 \/ s[i - 1] = "\n"

\* The literal of the pattern matches s at position i.
HeaderAt(s, i) ==
  /\ i + Len(Header) - 1 <= Len(s)
  /\ \A k \in 1..Len(Header) : s[i + k - 1] = Header[k]

\* The number of consecutive [\r\n] characters of s from position h on.
BreakRun(s, h) ==
  LET stops == {j \in h..Len(s) : s[j] \notin LineBreaks}
  IN  IF stops = {} THEN Len(s) - h + 1 ELSE Min(stops) - h

\* A faulty variant of GroupEnds: the pattern without its final '\w', so
\* that group 1 ends at the first line break.
GroupEndsAtAnyBreak(s, g) ==
  {j \in g..(Len(s) - 1) : s[j] \in LineBreaks}

\* The positions j >= g where '[\r\n]\w' matches: the ends of group 1.
GroupEnds(s, g) ==
  {j \in g..(Len(s) - 1) : s[j] \in LineBreaks /\ s[j + 1] \in WordChars}

\* The numbers of line breaks '[\r\n]+' can take after a header at i so that
\* the rest of the pattern still matches.
BreakCounts(s, i) ==
  {n \in 1..BreakRun(s, i + Len(Header)) :
     GroupEnds(s, i + Len(Header) + n) # {}}

\* The positions where the whole pattern matches.
MatchStarts(s) ==
  {i \in 1..Len(s) :
     AtLineStart(s, i) /\ HeaderAt(s, i) /\ BreakCounts(s, i) # {}}

\* re.search(pat, apt_output, re.DOTALL | re.MULTILINE): the leftmost match;
\* '[\r\n]+' is greedy (the most breaks that still let the rest match),
\* '(.*?)' is lazy (the nearest end) and '.' matches line breaks too.
search(s) ==
  IF MatchStarts(s) = {}
  THEN [matched |-> FALSE, group1 |-> <<>>]
  ELSE LET i == Min(MatchStarts(s))
           g == i + Len(Header) + Max(BreakCounts(s, i))
           j == Min(GroupEnds(s, g))
       IN  [matched |-> TRUE, group1 |-> SubSeq(s, g, j - 1)]

\* re.findall(r'[\w{}\.+-]+', text): the maximal runs of name characters,
\* left to right.
RECURSIVE findall(_)
findall(s) ==
  LET starts == {i \in 1..Len(s) : s[i] \in NameChars}
  IN  IF starts = {}
      THEN <<>>
      ELSE LET b == Min(starts)
               stops == {j \in b..Len(s) : s[j] \notin NameChars}
               e == IF stops = {} THEN Len(s) ELSE Min(stops) - 1
           IN  <<SubSeq(s, b, e)>> \o findall(SubSeq(s, e + 1, Len(s)))

\* A faulty variant of ManualPackages: the list is cut at its first
\* automatic package.
RECURSIVE ManualPackagesUntilAutomatic(_)
ManualPackagesUntilAutomatic(packs) ==
  IF packs = <<>> \/ Head(packs).automatic
  THEN <<>>
  ELSE <<Head(packs)>> \o ManualPackagesUntilAutomatic(Tail(packs))

\* [pack for pack in all_packages if not pack.automatic]
RECURSIVE ManualPackages(_)
ManualPackages(packs) ==
  IF packs = <<>>
  THEN <<>>
  ELSE (IF Head(packs).automatic THEN <<>> ELSE <<Head(packs)>>)
         \o ManualPackages(Tail(packs))

\* The list of PackageName objects parse_new_packages returns.
parse_new_packages(apt_output, include_automatic) ==
  LET matcher == search(apt_output)
  IN  IF ~matcher.matched
      THEN <<>>
      ELSE LET raw_names == findall(matcher.group1)
               all_packages ==
                 [k \in 1..Len(raw_names) |-> from_apt(raw_names[k])]
               manual_packages == ManualPackages(all_packages)
           IN  IF include_automatic THEN all_packages ELSE manual_packages

\* The same list as its user sees it, a PackageName being a str: the names.
Names(packs) == [k \in 1..Len(packs) |-> packs[k].name]

\* ------------------------------------------------------------------------
\* State.

VARIABLES
  \* parse_new_packages called on its own
  p_pc,                 \* "call" before the call, "returned" after it
  p_output,             \* the argument apt_output
  p_include,            \* the argument include_automatic
  p_result,             \* the value returned
  p_result_all,         \* the value returned for include_automatic=True
  \* dependency_context, one invocation per process
  pc,                   \* where each invocation is
  package_names,        \* the argument package_names
  aggressively_remove,  \* the argument aggressively_remove
  installed_packages,   \* the local list, which the block shares once yielded
  exc,                  \* the exception in flight, or the one that left
  holder,               \* the process that holds /tmp/.pkg-context-lock
  \* what each invocation did so far
  acquired,             \* lock.acquire() returned
  install_calls,        \* the number of install commands started
  remove_calls,         \* the argument lists of the remove commands started
  entered,              \* the enclosed block was entered
  yielded,              \* the list parse_new_packages returned, as yielded
  block_exc,            \* the exception the enclosed block raised
  releases,             \* the number of lock.release() calls made
  \* run(), one per process, around its invocation of dependency_context
  do_not_remove,        \* args.do_not_remove
  status,               \* <<the exit code of the user command>>, once it ran
  exit_code             \* <<the exit code of run()>>, once it exited

parse_vars == <<p_pc, p_output, p_include, p_result, p_result_all>>

ctx_vars == <<pc, package_names, aggressively_remove, installed_packages, exc,
              holder, acquired, install_calls, remove_calls, entered,
              yielded, block_exc, releases>>

ctx_vars_but_pc == <<package_names, aggressively_remove, installed_packages,
                     exc, holder, acquired, install_calls, remove_calls,
                     entered, yielded, block_exc, releases>>

run_vars == <<do_not_remove, status, exit_code>>

vars == <<parse_vars, ctx_vars, run_vars>>

\* ------------------------------------------------------------------------
\* Inputs.

\* [x] as a sequence of sequences, flattened: ''.join(chunks).
RECURSIVE Join(_)
Join(chunks) ==
  IF chunks = <<>> THEN <<>> ELSE Head(chunks) \o Join(Tail(chunks))

\* The pieces the apt outputs of the model are made of: the header literal,
\* the two line breaks, a blank, a letter and the marker of an automatic
\* package.
Chunks == {Header, <<"\n">>, <<"\r">>, <<" ">>, <<"a">>, <<"{", "a", "}">>}

\* Every apt output of at most MaxChunks chunks.
ChunkTexts ==
  {Join(cs) : cs \in UNION {[1..n -> Chunks] : n \in 0..MaxChunks}}

\* The package tokens of the generated blocks: a manual package, the same
\* name as an automatic one, a name with a '+' and another automatic one.
BlockTokens ==
  { <<"a">>, <<"a", "{", "a", "}">>, <<"g", "+">>, <<"b", "{", "a", "}">> }

\* What stands between two tokens of a block: a blank, or a line break and
\* the indentation of the next line.
Separators == { <<" ">>, <<"\n", " ">> }

\* What precedes the header: nothing, a line, or the indentation of the
\* header's own line.
Befores == { <<>>, <<"S", " ", "x", "\n">>, <<" ">> }

\* The sections after the block.
Afters == { <<"\n", "E", " ", "y", "\n">> }

\* Apt outputs shaped like the sample of the tests: what precedes the
\* header, the header and a line break, an indented block of at most
\* MaxTokens tokens on one or more lines, and a next section.
BlockTexts ==
  {before \o Header \o <<"\n", " ">> \o first \o Join(more) \o after :
     before \in Befores, first \in BlockTokens, after \in Afters,
     more \in UNION {[1..n -> {sep \o tok : sep \in Separators,
                                            tok \in BlockTokens}] :
                        n \in 0..(MaxTokens - 1)}}

\* The apt outputs parse_new_packages is tried on.
Texts == ChunkTexts \cup BlockTexts

\* What the install command prints in the model: nothing new; one manual
\* package; an automatic and a manual package; one automatic package.
InstallOutputs ==
  { <<"o", "k", "\n">>,
    Header \o <<"\n", " ", "b", "\n", "E", "\n">>,
    Header \o <<"\n", " ", "a", "{", "a", "}", " ", "b", "\n", "E", "\n">>,
    Header \o <<"\n", " ", "a", "{", "a", "}", "\n", "E", "\n">> }

\* The arguments dependency_context is called with: no package, or one
\* package with either value of aggressively_remove.
Calls ==
  { [names |-> <<>>, aggr |-> FALSE],
    [names |-> <<<<"b">>>>, aggr |-> FALSE],
    [names |-> <<<<"b">>>>, aggr |-> TRUE] }

\* A package the install command did not install, which the enclosed block
\* may put into the yielded list.
OtherPackages == { <<"x">> }

\* ------------------------------------------------------------------------
\* parse_new_packages, called on its own.

ParseInit ==
  /\ p_pc = "call"
  /\ p_output \in Texts
  /\ p_include \in BOOLEAN
  /\ p_result = <<>>
  /\ p_result_all = <<>>

\* Two calls on the same text: one with the chosen include_automatic, one
\* with include_automatic=True.
ParseCall ==
  /\ p_pc = "call"
  /\ p_result' = parse_new_packages(p_output, p_include)
  /\ p_result_all' = parse_new_packages(p_output, TRUE)
  /\ p_pc' = "returned"
  /\ UNCHANGED <<p_output, p_include>>

\* ------------------------------------------------------------------------
\* dependency_context: one invocation per process, all on the same lock path.

Procs == 1..NumProcs

\* The exception the enclosed block raises in the model: run() raises
\* SystemExit.
BlockErrors == {"SystemExit"}

\* lock.release() by process p: the holders of the lock file afterwards.
\* Each invocation has its own FileLock object, so a release by a process
\* that does not hold the lock takes it from nobody.
Release(p, holders) == holders \ {p}

CtxInit ==
  /\ pc = [p \in Procs |-> "idle"]
  /\ package_names = [p \in Procs |-> <<>>]
  /\ aggressively_remove = [p \in Procs |-> FALSE]
  /\ installed_packages = [p \in Procs |-> <<>>]
  /\ exc = [p \in Procs |-> "None"]
  /\ holder = {}
  /\ acquired = [p \in Procs |-> FALSE]
  /\ install_calls = [p \in Procs |-> 0]
  /\ remove_calls = [p \in Procs |-> <<>>]
  /\ entered = [p \in Procs |-> FALSE]
  /\ yielded = [p \in Procs |-> <<>>]
  /\ block_exc = [p \in Procs |-> "None"]
  /\ releases = [p \in Procs |-> 0]

\* The call, up to lock.acquire() (lines 48-56); with no package requested,
\* up to the yield (lines 48-53 and 69).
Call(p) ==
  /\ pc[p] = "idle"
  /\ \E call \in Calls :
       /\ package_names' = [package_names EXCEPT ![p] = call.names]
       /\ aggressively_remove' = [aggressively_remove EXCEPT ![p] = call.aggr]
       /\ IF call.names = <<>>
          THEN /\ pc' = [pc EXCEPT ![p] = "block"]
               /\ entered' = [entered EXCEPT ![p] = TRUE]
          ELSE /\ pc' = [pc EXCEPT ![p] = "acquire"]
               /\ UNCHANGED entered
  /\ UNCHANGED <<parse_vars, run_vars, installed_packages, exc, holder,
                 acquired, install_calls, remove_calls, yielded, block_exc,
                 releases>>

\* A faulty variant of LockAcquire: the install command is started without
\* waiting for the lock.
LockAcquireSkipped(p) ==
  /\ pc[p] = "acquire"
  /\ acquired' = [acquired EXCEPT ![p] = TRUE]
  /\ install_calls' = [install_calls EXCEPT ![p] = @ + 1]
  /\ pc' = [pc EXCEPT ![p] = "install"]
  /\ UNCHANGED <<parse_vars, run_vars, package_names, aggressively_remove,
                 installed_packages, exc, holder, remove_calls, entered,
                 yielded, block_exc, releases>>

\* lock.acquire() returns, and the install command is started (lines 56-61).
LockAcquire(p) ==
  /\ pc[p] = "acquire"
  /\ holder = {}
  /\ holder' = {p}
  /\ acquired' = [acquired EXCEPT ![p] = TRUE]
  /\ install_calls' = [install_calls EXCEPT ![p] = @ + 1]
  /\ pc' = [pc EXCEPT ![p] = "install"]
  /\ UNCHANGED <<parse_vars, run_vars, package_names, aggressively_remove,
                 installed_packages, exc, remove_calls, entered, yielded,
                 block_exc, releases>>

\* A faulty variant of LockTimeout: the timeout is noted and the install
\* command is started all the same.
LockTimeoutIgnored(p) ==
  /\ pc[p] = "acquire"
  /\ holder # {}
  /\ exc' = [exc EXCEPT ![p] = "FileLockTimeout"]
  /\ install_calls' = [install_calls EXCEPT ![p] = @ + 1]
  /\ pc' = [pc EXCEPT ![p] = "install"]
  /\ UNCHANGED <<parse_vars, run_vars, package_names, aggressively_remove,
                 installed_packages, holder, acquired, remove_calls, entered,
                 yielded, block_exc, releases>>

\* lock.acquire() raises FileLockTimeout: the lock was held all through the
\* timeout.  No except clause catches it; the finally clause is next.
LockTimeout(p) ==
  /\ pc[p] = "acquire"
  /\ holder # {}
  /\ exc' = [exc EXCEPT ![p] = "FileLockTimeout"]
  /\ pc' = [pc EXCEPT ![p] = "finally"]
  /\ UNCHANGED <<parse_vars, run_vars, package_names, aggressively_remove,
                 installed_packages, holder, acquired, install_calls,
                 remove_calls, entered, yielded, block_exc, releases>>

\* The install command exits non-zero: check_output raises
\* CalledProcessError, the except clause logs it and raises it again.
InstallFail(p) ==
  /\ pc[p] = "install"
  /\ exc' = [exc EXCEPT ![p] = "InstallError"]
  /\ pc' = [pc EXCEPT ![p] = "finally"]
  /\ UNCHANGED <<parse_vars, run_vars, package_names, aggressively_remove,
                 installed_packages, holder, acquired, install_calls,
                 remove_calls, entered, yielded, block_exc, releases>>

\* InstallOk without the release of an empty result (line 67 left out).
InstallOkKeepsLock(p) ==
  /\ pc[p] = "install"
  /\ \E out \in InstallOutputs :
       LET packs == Names(parse_new_packages(out, aggressively_remove[p]))
       IN  /\ installed_packages' = [installed_packages EXCEPT ![p] = packs]
           /\ yielded' = [yielded EXCEPT ![p] = packs]
  /\ entered' = [entered EXCEPT ![p] = TRUE]
  /\ pc' = [pc EXCEPT ![p] = "block"]
  /\ UNCHANGED <<parse_vars, run_vars, package_names, aggressively_remove,
                 exc, holder, acquired, install_calls, remove_calls,
                 block_exc, releases>>

\* The install command exits with 0: its output is parsed, the lock is
\* released when nothing new was installed, and the list is yielded.
InstallOk(p) ==
  /\ pc[p] = "install"
  /\ \E out \in InstallOutputs :
       LET packs == Names(parse_new_packages(out, aggressively_remove[p]))
       IN  /\ installed_packages' = [installed_packages EXCEPT ![p] = packs]
           /\ holder' = IF packs = <<>> THEN Release(p, holder) ELSE holder
           /\ releases' =
                [releases EXCEPT ![p] = IF packs = <<>> THEN @ + 1 ELSE @]
           /\ yielded' = [yielded EXCEPT ![p] = packs]
  /\ entered' = [entered EXCEPT ![p] = TRUE]
  /\ pc' = [pc EXCEPT ![p] = "block"]
  /\ UNCHANGED <<parse_vars, run_vars, package_names, aggressively_remove,
                 exc, acquired, install_calls, remove_calls, block_exc>>

\* xs with its i-th element deleted: del xs[i].
DeleteAt(xs, i) == SubSeq(xs, 1, i - 1) \o SubSeq(xs, i + 1, Len(xs))

\* The enclosed block deletes one package from the yielded list.
BlockDelete(p) ==
  /\ pc[p] = "block"
  /\ \E i \in 1..Len(installed_packages[p]) :
       installed_packages' =
         [installed_packages EXCEPT ![p] = DeleteAt(@, i)]
  /\ UNCHANGED <<parse_vars, run_vars, pc, package_names, aggressively_remove,
                 exc, holder, acquired, install_calls, remove_calls, entered,
                 yielded, block_exc, releases>>

\* The enclosed block empties the yielded list: del to_remove[:] of run().
BlockClear(p) ==
  /\ pc[p] = "block"
  /\ installed_packages[p] # <<>>
  /\ installed_packages' = [installed_packages EXCEPT ![p] = <<>>]
  /\ UNCHANGED <<parse_vars, run_vars, pc, package_names, aggressively_remove,
                 exc, holder, acquired, install_calls, remove_calls, entered,
                 yielded, block_exc, releases>>

\* The enclosed block appends a package to the yielded list, one that is not
\* in it yet.
BlockAppend(p) ==
  /\ pc[p] = "block"
  /\ \E x \in OtherPackages :
       /\ \A k \in 1..Len(installed_packages[p]) : installed_packages[p][k] # x
       /\ installed_packages' = [installed_packages EXCEPT ![p] = Append(@, x)]
  /\ UNCHANGED <<parse_vars, run_vars, pc, package_names, aggressively_remove,
                 exc, holder, acquired, install_calls, remove_calls, entered,
                 yielded, block_exc, releases>>

\* The enclosed block completes: the generator resumes after the yield.
BlockReturn(p) ==
  /\ pc[p] = "block"
  /\ pc' = [pc EXCEPT ![p] = "finally"]
  /\ UNCHANGED <<parse_vars, run_vars, package_names, aggressively_remove,
                 installed_packages, exc, holder, acquired, install_calls,
                 remove_calls, entered, yielded, block_exc, releases>>

\* The enclosed block raises: the exception is thrown into the generator at
\* the yield; it is no CalledProcessError, so no except clause catches it.
BlockRaise(p) ==
  /\ pc[p] = "block"
  /\ \E e \in BlockErrors :
       /\ exc' = [exc EXCEPT ![p] = e]
       /\ block_exc' = [block_exc EXCEPT ![p] = e]
  /\ pc' = [pc EXCEPT ![p] = "finally"]
  /\ UNCHANGED <<parse_vars, run_vars, package_names, aggressively_remove,
                 installed_packages, holder, acquired, install_calls,
                 remove_calls, entered, yielded, releases>>

\* A faulty variant of Finally: the clause works on the list as it was
\* yielded, not as the enclosed block left it.
FinallySnapshot(p) ==
  /\ pc[p] = "finally"
  /\ IF yielded[p] # <<>>
     THEN /\ remove_calls' = [remove_calls EXCEPT ![p] = Append(@, yielded[p])]
          /\ pc' = [pc EXCEPT ![p] = "remove"]
     ELSE /\ pc' = [pc EXCEPT ![p] = "done"]
          /\ UNCHANGED remove_calls
  /\ UNCHANGED <<parse_vars, run_vars, package_names, aggressively_remove,
                 installed_packages, exc, holder, acquired, install_calls,
                 entered, yielded, block_exc, releases>>

\* Finally removing the requested packages instead of the installed ones.
FinallyRemovesRequested(p) ==
  /\ pc[p] = "finally"
  /\ IF installed_packages[p] # <<>>
     THEN /\ remove_calls' =
               [remove_calls EXCEPT ![p] = Append(@, package_names[p])]
          /\ pc' = [pc EXCEPT ![p] = "remove"]
     ELSE /\ pc' = [pc EXCEPT ![p] = "done"]
          /\ UNCHANGED remove_calls
  /\ UNCHANGED <<parse_vars, run_vars, package_names, aggressively_remove,
                 installed_packages, exc, holder, acquired, install_calls,
                 entered, yielded, block_exc, releases>>

\* Finally as an `else:` clause, skipped when an exception is in flight.
FinallyOnSuccessOnly(p) ==
  /\ pc[p] = "finally"
  /\ IF installed_packages[p] # <<>> /\ exc[p] = "None"
     THEN /\ remove_calls' =
               [remove_calls EXCEPT ![p] = Append(@, installed_packages[p])]
          /\ pc' = [pc EXCEPT ![p] = "remove"]
     ELSE /\ pc' = [pc EXCEPT ![p] = "done"]
          /\ UNCHANGED remove_calls
  /\ UNCHANGED <<parse_vars, run_vars, package_names, aggressively_remove,
                 installed_packages, exc, holder, acquired, install_calls,
                 entered, yielded, block_exc, releases>>

\* The finally clause: with a non-empty list the remove command is started,
\* with an empty one the clause is over and dependency_context finishes.
Finally(p) ==
  /\ pc[p] = "finally"
  /\ IF installed_packages[p] # <<>>
     THEN /\ remove_calls' =
               [remove_calls EXCEPT ![p] = Append(@, installed_packages[p])]
          /\ pc' = [pc EXCEPT ![p] = "remove"]
     ELSE /\ pc' = [pc EXCEPT ![p] = "done"]
          /\ UNCHANGED remove_calls
  /\ UNCHANGED <<parse_vars, run_vars, package_names, aggressively_remove,
                 installed_packages, exc, holder, acquired, install_calls,
                 entered, yielded, block_exc, releases>>

\* The remove command exits non-zero: check_call raises CalledProcessError
\* out of the finally clause, in place of any exception in flight.
RemoveFail(p) ==
  /\ pc[p] = "remove"
  /\ exc' = [exc EXCEPT ![p] = "RemoveError"]
  /\ pc' = [pc EXCEPT ![p] = "done"]
  /\ UNCHANGED <<parse_vars, run_vars, package_names, aggressively_remove,
                 installed_packages, holder, acquired, install_calls,
                 remove_calls, entered, yielded, block_exc, releases>>

\* The remove command exits with 0, then lock.release().  The local `lock`
\* is bound only when packages were requested; otherwise the statement
\* raises UnboundLocalError.
RemoveOk(p) ==
  /\ pc[p] = "remove"
  /\ IF package_names[p] = <<>>
     THEN /\ exc' = [exc EXCEPT ![p] = "UnboundLocalError"]
          /\ UNCHANGED <<holder, releases>>
     ELSE /\ holder' = Release(p, holder)
          /\ releases' = [releases EXCEPT ![p] = @ + 1]
          /\ UNCHANGED exc
  /\ pc' = [pc EXCEPT ![p] = "done"]
  /\ UNCHANGED <<parse_vars, run_vars, package_names, aggressively_remove,
                 installed_packages, acquired, install_calls, remove_calls,
                 entered, yielded, block_exc>>

\* ------------------------------------------------------------------------
\* run(): the body of `with context as to_remove:` and the process exit.

\* The exit codes of the user command.
ExitCodes == {0, 2}

\* Lines 135-138: with --do-not-remove the yielded list is emptied in place;
\* the user command runs to its end and SystemExit(its exit code) is raised.
RunBlock(p) ==
  /\ pc[p] = "block"
  /\ installed_packages' =
       [installed_packages EXCEPT
          ![p] = IF do_not_remove[p] THEN <<>> ELSE @]
  /\ \E code \in ExitCodes : status' = [status EXCEPT ![p] = <<code>>]
  /\ exc' = [exc EXCEPT ![p] = "SystemExit"]
  /\ block_exc' = [block_exc EXCEPT ![p] = "SystemExit"]
  /\ pc' = [pc EXCEPT ![p] = "finally"]
  /\ UNCHANGED <<parse_vars, do_not_remove, exit_code, package_names,
                 aggressively_remove, holder, acquired, install_calls,
                 remove_calls, entered, yielded, releases>>

\* RunExit with a bare `raise SystemExit()`: the command's code is dropped.
RunExitIgnoresStatus(p) ==
  /\ pc[p] = "done"
  /\ exit_code' =
       [exit_code EXCEPT ![p] = IF exc[p] = "SystemExit" THEN <<0>> ELSE <<1>>]
  /\ pc' = [pc EXCEPT ![p] = "exited"]
  /\ UNCHANGED <<parse_vars, ctx_vars_but_pc, do_not_remove, status>>

\* The exception leaves run(): SystemExit(code) ends the process with that
\* code, any other exception is uncaught and ends it with exit code 1.
RunExit(p) ==
  /\ pc[p] = "done"
  /\ exit_code' =
       [exit_code EXCEPT
          ![p] = IF exc[p] = "SystemExit" THEN status[p] ELSE <<1>>]
  /\ pc' = [pc EXCEPT ![p] = "exited"]
  /\ UNCHANGED <<parse_vars, ctx_vars_but_pc, do_not_remove, status>>

\* ------------------------------------------------------------------------
\* Specifications.

\* Concurrent invocations of dependency_context.
RunIdle ==
  /\ do_not_remove = [p \in Procs |-> FALSE]
  /\ status = [p \in Procs |-> <<>>]
  /\ exit_code = [p \in Procs |-> <<>>]

Init ==
  /\ CtxInit
  /\ RunIdle
  /\ p_pc = "returned"
  /\ p_output = <<>>
  /\ p_include = FALSE
  /\ p_result = <<>>
  /\ p_result_all = <<>>

Next ==
  \E p \in Procs :
    \/ Call(p)
    \/ LockAcquire(p)
    \/ LockTimeout(p)
    \/ InstallFail(p)
    \/ InstallOk(p)
    \/ BlockDelete(p)
    \/ BlockClear(p)
    \/ BlockAppend(p)
    \/ BlockReturn(p)
    \/ BlockRaise(p)
    \/ Finally(p)
    \/ RemoveFail(p)
    \/ RemoveOk(p)

Spec == Init /\ [][Next]_vars

\* Concurrent runs of run(), each with or without --do-not-remove.
RunInit ==
  /\ CtxInit
  /\ do_not_remove \in [Procs -> BOOLEAN]
  /\ status = [p \in Procs |-> <<>>]
  /\ exit_code = [p \in Procs |-> <<>>]
  /\ p_pc = "returned"
  /\ p_output = <<>>
  /\ p_include = FALSE
  /\ p_result = <<>>
  /\ p_result_all = <<>>

RunNext ==
  \E p \in Procs :
    \/ Call(p)
    \/ LockAcquire(p)
    \/ LockTimeout(p)
    \/ InstallFail(p)
    \/ InstallOk(p)
    \/ RunBlock(p)
    \/ Finally(p)
    \/ RemoveFail(p)
    \/ RemoveOk(p)
    \/ RunExit(p)

RunSpec == RunInit /\ [][RunNext]_vars

\* parse_new_packages on every text of the bound.
ParserInit == ParseInit /\ CtxInit /\ RunIdle

ParserNext == ParseCall /\ UNCHANGED <<ctx_vars, run_vars>>

ParserSpec == ParserInit /\ [][ParserNext]_vars

\* ------------------------------------------------------------------------
\* Properties of dependency_context (under Spec).

\* The set of the elements of a list.
Range(xs) == {xs[k] : k \in 1..Len(xs)}

\* C1: every invocation that acquired the lock no longer holds it once
\* dependency_context has finished, whichever way it finished.
C1_LockReleasedOnExit ==
  \A p \in Procs : (pc[p] = "done" /\ acquired[p]) => p \notin holder

\* C2: when the install command exits non-zero, the failure reaches the
\* caller with the lock released and no remove command invoked.
C2_InstallFailureReleasesLock ==
  \A p \in Procs :
    (pc[p] = "done" /\ install_calls[p] > 0 /\ ~entered[p])
      => /\ exc[p] = "InstallError"
         /\ remove_calls[p] = <<>>
         /\ p \notin holder

\* C3: an install command runs only while its invocation holds the lock, so
\* no two invocations run their install commands at the same time.
C3_InstallUnderLock ==
  /\ \A p \in Procs : pc[p] = "install" => holder = {p}
  /\ \A p, q \in Procs : (pc[p] = "install" /\ pc[q] = "install") => p = q

\* One invocation runs its install command while another waits for the lock.
C3_Witness ==
  \E p, q \in Procs : p # q /\ pc[p] = "install" /\ pc[q] = "acquire"

\* C4: whatever the enclosed block does with the yielded list, the packages
\* passed to the remove command are among those parse_new_packages reported
\* for the install output.
C4_RemovedWereInstalled ==
  \A p \in Procs :
    \A k \in 1..Len(remove_calls[p]) :
      Range(remove_calls[p][k]) \subseteq Range(yielded[p])

\* C5: called with no package, dependency_context acquires no lock, invokes
\* neither the install nor the remove command and yields an empty list.
C5_NothingRequestedNothingDone ==
  \A p \in Procs :
    (pc[p] # "idle" /\ package_names[p] = <<>>)
      => /\ ~acquired[p]
         /\ install_calls[p] = 0
         /\ remove_calls[p] = <<>>
         /\ entered[p]
         /\ yielded[p] = <<>>

\* C6: when the enclosed block leaves the yielded list empty, no remove
\* command is invoked at cleanup.
C6_EmptiedListNotRemoved ==
  \A p \in Procs :
    (pc[p] = "done" /\ entered[p] /\ installed_packages[p] = <<>>)
      => remove_calls[p] = <<>>

\* Packages were newly installed, the block emptied the list, and
\* dependency_context finished.
C6_Witness ==
  \E p \in Procs :
    /\ pc[p] = "done"
    /\ yielded[p] # <<>>
    /\ installed_packages[p] = <<>>
    /\ remove_calls[p] = <<>>

\* C7: when the enclosed block raises, the remove command runs for the
\* non-empty list, the lock is released, and the error that reaches the
\* caller is the one the block raised.
C7_BlockErrorSurvivesCleanup ==
  \A p \in Procs :
    (pc[p] = "done" /\ acquired[p] /\ block_exc[p] # "None")
      => /\ exc[p] = block_exc[p]
         /\ p \notin holder
         /\ installed_packages[p] # <<>> => Len(remove_calls[p]) = 1

\* C8: a failure of the remove command leaves dependency_context only after
\* the lock has been released.
C8_RemoveFailureAfterRelease ==
  \A p \in Procs : (pc[p] = "done" /\ exc[p] = "RemoveError") => p \notin holder

\* C9: when the lock is not acquired within the timeout, the invocation
\* aborts with that error: no install command, no remove command, and the
\* enclosed block is never entered.
C9_LockTimeoutAborts ==
  \A p \in Procs :
    exc[p] = "FileLockTimeout"
      => /\ pc[p] \in {"finally", "done"}
         /\ ~acquired[p]
         /\ install_calls[p] = 0
         /\ remove_calls[p] = <<>>
         /\ ~entered[p]

\* An invocation timed out on the lock and has finished.
C9_Witness ==
  \E p \in Procs : pc[p] = "done" /\ exc[p] = "FileLockTimeout"

\* C14: when the install succeeded and nothing new was parsed from its
\* output, the invocation does not hold the lock at any point while the
\* enclosed block runs.
C14_EmptyResultBlockWithoutLock ==
  \A p \in Procs :
    (pc[p] = "block" /\ acquired[p] /\ yielded[p] = <<>>) => p \notin holder

C14_Witness ==
  \E p \in Procs :
    /\ pc[p] = "block"
    /\ acquired[p]
    /\ yielded[p] = <<>>
    /\ releases[p] = 1
    /\ p \notin holder

\* C15: within one invocation lock.release() is called at most once,
\* whatever the enclosed block does with the yielded list.
C15_ReleasedAtMostOnce ==
  \A p \in Procs : releases[p] <= 1

\* C16: the remove command is invoked with the contents the yielded list
\* has at scope exit, after the mutations of the enclosed block.
C16_RemoveArgsAreCurrentList ==
  \A p \in Procs :
    \A k \in 1..Len(remove_calls[p]) :
      remove_calls[p][k] = installed_packages[p]

C16_Witness ==
  \E p \in Procs :
    /\ pc[p] = "done"
    /\ yielded[p] # <<>>
    /\ remove_calls[p] # <<>>
    /\ remove_calls[p][1] # yielded[p]

\* C17: in each invocation the remove command is invoked at most once, and
\* once the finally clause has been passed it was invoked exactly once if
\* the list was non-empty and not at all otherwise, whether the enclosed
\* block completed normally or raised.
C17_CleanupExactlyOnce ==
  \A p \in Procs :
    /\ Len(remove_calls[p]) <= 1
    /\ pc[p] \in {"remove", "done"} =>
         (Len(remove_calls[p]) = 1 <=> installed_packages[p] # <<>>)

C17_Witness ==
  \E p \in Procs :
    /\ pc[p] = "done"
    /\ block_exc[p] # "None"
    /\ installed_packages[p] # <<>>
    /\ Len(remove_calls[p]) = 1

\* C18: a remove command runs only while its invocation holds the lock, and
\* never while the install command of another invocation runs.
C18_RemoveUnderLock ==
  \A p \in Procs :
    pc[p] = "remove" =>
      /\ p \in holder
      /\ \A q \in Procs \ {p} : pc[q] # "install"

\* ------------------------------------------------------------------------
\* Properties of run() (under RunSpec).

HasHeaderLine(s) ==
  \E i \in 1..Len(s) :
    /\ i = 1 \/ s[i - 1] \in LineBreaks
    /\ HeaderAt(s, i)
    /\ i + Len(Header) > Len(s) \/ s[i + Len(Header)] \in LineBreaks

\* C10: for a text with no header line, parse_new_packages returns an empty
\* list, with and without include_automatic.
C10_NoHeaderNoPackages ==
  (p_pc = "returned" /\ ~HasHeaderLine(p_output)) => p_result = <<>>

\* The header literal is in the text, indented, followed by what would be a
\* block of one package and a next section; the call returned an empty list.
C10_Witness ==
  /\ p_pc = "returned"
  /\ p_output = <<" ">> \o Header
                  \o <<"\n", " ", "a", "\n", "E", " ", "y", "\n">>
  /\ ~HasHeaderLine(p_output)
  /\ p_result = <<>>

\* What a reader of the output takes for the header of a well-formed
\* block: the first header in the text, on a line of its own starting at i.
WellFormedHeader(s, i) ==
  /\ i = 1 \/ s[i - 1] = "\n"
  /\ HeaderAt(s, i)
  /\ i + Len(Header) <= Len(s)
  /\ s[i + Len(Header)] = "\n"
  /\ \A j \in 1..(i - 1) : ~HeaderAt(s, j)

\* ... and for its block: one or more lines after the header line that are
\* indented and hold only names and blanks, up to e, the line break before
\* a line that starts a new section.
WellFormedBlock(s, i, e) ==
  /\ WellFormedHeader(s, i)
  /\ i + Len(Header) + 1 < e
  /\ e < Len(s)
  /\ s[e] = "\n"
  /\ s[e + 1] \in WordChars
  /\ \A k \in (i + Len(Header) + 1)..(e - 1) :
       /\ s[k] \in NameChars \cup {" ", "\n"}
       /\ s[k - 1] = "\n" => s[k] = " "

\* The well-formed blocks of s, each as <<i, e>>.
WellFormedBlocks(s) ==
  UNION {{<<i, e>> : e \in {x \in 1..Len(s) : WellFormedBlock(s, i, x)}} :
           i \in {x \in 1..Len(s) : WellFormedHeader(s, x)}}

\* The tokens of s as a reader splits them: at blanks and line breaks.
RECURSIVE Words(_)
Words(s) ==
  IF s = <<>>
  THEN <<>>
  ELSE IF Head(s) \in {" ", "\n"}
       THEN Words(Tail(s))
       ELSE LET blanks == {k \in 1..Len(s) : s[k] \in {" ", "\n"}}
                n == IF blanks = {} THEN Len(s) ELSE Min(blanks) - 1
            IN  <<SubSeq(s, 1, n)>> \o Words(SubSeq(s, n + 1, Len(s)))

\* The tokens of the well-formed block of s between i and e.
BlockWords(s, i, e) == Words(SubSeq(s, i + Len(Header) + 1, e - 1))

\* The token carries the marker of an automatic package.
Marked(w) == Len(w) >= 3 /\ SubSeq(w, Len(w) - 2, Len(w)) = <<"{", "a", "}">>

\* The token without its marker.
Unmarked(w) == IF Marked(w) THEN SubSeq(w, 1, Len(w) - 3) ELSE w

\* The names of all the tokens, in order.
RECURSIVE AllNames(_)
AllNames(ws) ==
  IF ws = <<>> THEN <<>> ELSE <<Unmarked(Head(ws))>> \o AllNames(Tail(ws))

\* The tokens without a marker, in order.
RECURSIVE ManualNames(_)
ManualNames(ws) ==
  IF ws = <<>>
  THEN <<>>
  ELSE (IF Marked(Head(ws)) THEN <<>> ELSE <<Head(ws)>>)
         \o ManualNames(Tail(ws))

C12_BlockTokensInOrder ==
  p_pc = "returned" =>
    \A ie \in WellFormedBlocks(p_output) :
      /\ Names(p_result_all) = AllNames(BlockWords(p_output, ie[1], ie[2]))
      /\ Names(p_result) =
           IF p_include
           THEN AllNames(BlockWords(p_output, ie[1], ie[2]))
           ELSE ManualNames(BlockWords(p_output, ie[1], ie[2]))

\* The output has a line before the header, a block of two lines that names
\* the same package twice, and a next section; both names are returned.
C12_Witness ==
  /\ p_pc = "returned"
  /\ p_output = <<"S", " ", "x", "\n">> \o Header
                  \o <<"\n", " ", "a", "\n", " ", "a", "\n", "E", " ", "y", "\n">>
  /\ Names(p_result) = << <<"a">>, <<"a">> >>

\* The packages of a list that are not automatic, in order.
RECURSIVE NotAutomatic(_)
NotAutomatic(packs) ==
  IF packs = <<>>
  THEN <<>>
  ELSE (IF Head(packs).automatic = FALSE THEN <<Head(packs)>> ELSE <<>>)
         \o NotAutomatic(Tail(packs))

\* C19: for every text, the result for include_automatic=False is the
\* result for include_automatic=True without its automatic packages, in the
\* same order.
C19_ManualIsSubsequence ==
  (p_pc = "returned" /\ ~p_include) => p_result = NotAutomatic(p_result_all)

\* A text whose block has automatic and manual packages, so that the two
\* results differ and neither is empty.
C19_Witness ==
  /\ p_pc = "returned"
  /\ ~p_include
  /\ p_result # <<>>
  /\ Len(p_result) < Len(p_result_all)

====
